---- MODULE Spec2Model ----
(***************************************************************************)
(* Model of backend/book/api.go: the book and note handlers of the         *)
(* reading tracker, over the two collections "book" and "note".            *)
(*                                                                         *)
(* One action is one store call of a handler, together with the local     *)
(* computation before and after it, so that requests interleave exactly   *)
(* where the code leaves the store.  Every store call may fail.           *)
(*                                                                         *)
(* Spec is one client that sends any request after any other, on a store   *)
(* that starts empty.  ConcSpec is NumProcs requests of the handlers that  *)
(* maintain the book-note relationship, one in each slot and interleaved   *)
(* in every way, on a store that holds a book with a note.                 *)
(*                                                                         *)
(* Abstractions: an ObjectID is a natural number (0 is NilObjectID) and    *)
(* its hex form has two digits instead of twenty-four; a book document     *)
(* keeps the fields id, title and notes (author, status, times and         *)
(* description behave like title); a note document keeps id, bookid and    *)
(* content.  The client of EditBook sends keys among title and notes, the  *)
(* client of EditNote keys among content and bookid, with string values.   *)
(***************************************************************************)
EXTENDS Integers, Sequences, FiniteSets, TLC

\* Number of ObjectIDs primitive.NewObjectID can hand out in one run.
MaxId == 2

\* Number of request slots, that is, of requests that can be in progress at
\* the same time.
NumProcs == 2

Procs == 1..NumProcs

NilObjectID == 0

VARIABLES
    bookCollection,   \* the documents of collection "book"
    noteCollection,   \* the documents of collection "note"
    nextId,           \* the next value of primitive.NewObjectID()
    req,              \* per request slot: the handler, its position and locals
    allOK             \* every request completed so far returned success

vars == <<bookCollection, noteCollection, nextId, req, allOK>>

-----------------------------------------------------------------------------
(* BSON values: an ObjectID, a string, or an array of ObjectIDs.           *)

OidVal(i) == [t |-> "oid", v |-> i]

StrVal(s) == [t |-> "str", v |-> s]

ArrVal(q) == [t |-> "arr", v |-> q]

-----------------------------------------------------------------------------
(* Identifier codec: primitive.ObjectIDFromHex and ObjectID.Hex.           *)

HexDigits == <<"0", "1", "2", "3", "4", "5", "6", "7",
               "8", "9", "a", "b", "c", "d", "e", "f">>

IsHexDigit(c) == \E i \in 1..Len(HexDigits) : HexDigits[i] = c

DigitValue(c) == (CHOOSE i \in 1..Len(HexDigits) : HexDigits[i] = c) - 1

RECURSIVE HexValue(_)
HexValue(s) ==
    IF s = <<>> THEN 0
    ELSE 16 * HexValue(SubSeq(s, 1, Len(s) - 1)) + DigitValue(s[Len(s)])

\* Hex string -> [err, oid]; err is TRUE for a string of the wrong length
\* or with a character that is no hex digit.
ObjectIDFromHex(s) ==
    IF Len(s) # 2 \/ \E i \in 1..Len(s) : ~IsHexDigit(s[i])
    THEN [err |-> TRUE, oid |-> NilObjectID]
    ELSE [err |-> FALSE, oid |-> HexValue(s)]

\* ObjectID -> its hex string.
Hex(i) == <<HexDigits[(i \div 16) + 1], HexDigits[(i % 16) + 1]>>

\* The ObjectIDs of the documents in the store.
StoreIds == {d["id"].v : d \in bookCollection \cup noteCollection}

\* The identifier strings a client sends: the hex form of every ObjectID of
\* the run (generated or not yet) and of every stored document, and two
\* malformed strings.
IdInputs ==
    {Hex(i) : i \in (1..MaxId) \cup StoreIds} \cup {<<"0", "g">>, <<"1">>}

\* ObjectID.UnmarshalJSON under the discarded error of c.ShouldBindJSON: a
\* malformed string leaves the field at its zero value.
BindObjectID(s) ==
    IF ObjectIDFromHex(s).err THEN NilObjectID ELSE ObjectIDFromHex(s).oid

\* strIdToPrimitive: the id of an untyped field map, decoded by the codec.
strIdToPrimitive(s) == ObjectIDFromHex(s)

-----------------------------------------------------------------------------
(* The store: a collection is a set of documents, a document a function     *)
(* from field names to BSON values.                                        *)

Matching(coll, key, val) == {d \in coll : key \in DOMAIN d /\ d[key] = val}

\* The result of a find that matched nothing, or that the store failed to
\* answer.
NoDoc == [found |-> FALSE, doc |-> <<>>]

\* FindOne with filter {"id": oid}: a matching document, or none.
FindOne(coll, oid) ==
    LET m == Matching(coll, "id", OidVal(oid))
    IN  IF m = {} THEN NoDoc
        ELSE [found |-> TRUE, doc |-> CHOOSE d \in m : TRUE]

\* {"$set": upd} on one document.
SetFields(d, upd) ==
    [k \in DOMAIN d \cup DOMAIN upd |-> IF k \in DOMAIN upd THEN upd[k] ELSE d[k]]

\* Sequence q without every occurrence of x ($pull).
RECURSIVE Pull(_, _)
Pull(q, x) ==
    IF q = <<>> THEN <<>>
    ELSE IF Head(q) = x THEN Pull(Tail(q), x)
    ELSE <<Head(q)>> \o Pull(Tail(q), x)

\* The number of occurrences of x in q.
RECURSIVE Count(_, _)
Count(q, x) ==
    IF q = <<>> THEN 0
    ELSE (IF Head(q) = x THEN 1 ELSE 0) + Count(Tail(q), x)

\* Replace document d of coll by e.
Replace(coll, d, e) == (coll \ {d}) \cup {e}

\* PushNote with the filter on a key no book has ("_id" for "id"): nothing
\* matches and nothing is pushed.
PushNoteWrongKey(coll, oid, x) == [err |-> FALSE, coll |-> coll]

\* An update that writes the notes anew, holding x alone.
PushNoteReplaces(coll, oid, x) ==
    LET f == FindOne(coll, oid)
    IN  IF ~f.found THEN [err |-> FALSE, coll |-> coll]
        ELSE [err |-> FALSE,
              coll |-> Replace(coll, f.doc,
                  SetFields(f.doc, [k \in {"notes"} |-> ArrVal(<<x>>)]))]

\* UpdateOne {"id": oid} {"$push": {"notes": x}}: [err, coll].  No matching
\* document is no error; a notes field that is no array is a write error.
PushNote(coll, oid, x) ==
    LET f == FindOne(coll, oid)
    IN  IF ~f.found THEN [err |-> FALSE, coll |-> coll]
        ELSE IF "notes" \in DOMAIN f.doc /\ f.doc["notes"].t # "arr"
        THEN [err |-> TRUE, coll |-> coll]
        ELSE [err |-> FALSE,
              coll |-> Replace(coll, f.doc,
                  SetFields(f.doc, [k \in {"notes"} |->
                      ArrVal((IF "notes" \in DOMAIN f.doc
                              THEN f.doc["notes"].v ELSE <<>>) \o <<x>>)]))]

\* UpdateOne {"id": oid} {"$pull": {"notes": x}}: [err, coll].
PullNote(coll, oid, x) ==
    LET f == FindOne(coll, oid)
    IN  IF ~f.found \/ "notes" \notin DOMAIN f.doc
        THEN [err |-> FALSE, coll |-> coll]
        ELSE IF f.doc["notes"].t # "arr" THEN [err |-> TRUE, coll |-> coll]
        ELSE [err |-> FALSE,
              coll |-> Replace(coll, f.doc,
                  SetFields(f.doc, [k \in {"notes"} |->
                      ArrVal(Pull(f.doc["notes"].v, x))]))]

\* An update with $set that is applied to every document of the collection.
SetEvery(coll, oid, upd) ==
    [matched |-> FindOne(coll, oid).found,
     coll |-> {SetFields(d, upd) : d \in coll}]

\* UpdateOne / FindOneAndUpdate {"id": oid} {"$set": upd}: [matched, coll].
SetOne(coll, oid, upd) ==
    LET f == FindOne(coll, oid)
    IN  IF ~f.found THEN [matched |-> FALSE, coll |-> coll]
        ELSE [matched |-> TRUE, coll |-> Replace(coll, f.doc, SetFields(f.doc, upd))]

\* DeleteOne {"id": oid}: [count, coll].
DeleteOne(coll, oid) ==
    LET f == FindOne(coll, oid)
    IN  IF ~f.found THEN [count |-> 0, coll |-> coll]
        ELSE [count |-> 1, coll |-> coll \ {f.doc}]

\* DeleteMany {"bookid": oid}.
DeleteMany(coll, oid) == coll \ Matching(coll, "bookid", OidVal(oid))

-----------------------------------------------------------------------------
(* Documents and their decoding into the structs m.Book and m.Note.        *)

BookDoc(id, title, notes) ==
    [k \in {"id", "title", "notes"} |->
        IF k = "id" THEN OidVal(id)
        ELSE IF k = "title" THEN StrVal(title) ELSE ArrVal(notes)]

\* A note document stored without the identifier minted for it.
NoteDocWithoutID(id, bookID, content) ==
    [k \in {"id", "bookid", "content"} |->
        IF k = "id" THEN OidVal(NilObjectID)
        ELSE IF k = "bookid" THEN OidVal(bookID) ELSE StrVal(content)]

NoteDoc(id, bookID, content) ==
    [k \in {"id", "bookid", "content"} |->
        IF k = "id" THEN OidVal(id)
        ELSE IF k = "bookid" THEN OidVal(bookID) ELSE StrVal(content)]

\* SingleResult.Decode(&book) with its error discarded: the zero Book when
\* nothing was found; a field of the wrong type ends the decoding and leaves
\* the fields after it at their zero values.
DecodeBook(f) ==
    IF ~f.found THEN [ID |-> NilObjectID, Notes |-> <<>>]
    ELSE [ID |-> f.doc["id"].v,
          Notes |-> IF f.doc["notes"].t = "arr" THEN f.doc["notes"].v ELSE <<>>]

DecodeNote(f) ==
    IF ~f.found THEN [ID |-> NilObjectID, BookID |-> NilObjectID, Content |-> ""]
    ELSE IF f.doc["bookid"].t # "oid"
    THEN [ID |-> f.doc["id"].v, BookID |-> NilObjectID, Content |-> ""]
    ELSE [ID |-> f.doc["id"].v, BookID |-> f.doc["bookid"].v,
          Content |-> f.doc["content"].v]

-----------------------------------------------------------------------------
(* Requests.                                                               *)

\* A request slot: op and pc say which handler runs and where it stands.
\* Three fields are not read by the handlers and record the request for the
\* properties: valid, whether the client's identifier string was well-formed;
\* before, the document the request is about as the request found it; calls,
\* the store calls the request has issued.  err is "" on success, and errAt
\* names the store call whose error is reported.  added is a fourth record
\* for the properties: the AddNote that this client's previous request was,
\* when that request returned success; DeleteNote alone carries it along.
NoAdd == [found |-> FALSE, id |-> NilObjectID, book |-> NoDoc]

Idle ==
    [op |-> "", pc |-> "idle", valid |-> TRUE, id |-> NilObjectID,
     bookID |-> NilObjectID, fields |-> <<>>, noteIDs |-> <<>>, notes |-> <<>>,
     isDeleted |-> FALSE, before |-> NoDoc, calls |-> <<>>, err |-> "",
     errAt |-> "", data |-> <<>>, added |-> NoAdd]

\* A request starts in the first slot that serves no request.
Begin(p) ==
    /\ req[p].pc = "idle"
    /\ \A q \in Procs : q < p => req[q].pc # "idle"

Running(p) == req[p].pc \notin {"idle", "done"}

\* util.ResponseError / util.ResponseSuccess: the request ends with r.
Respond(p, r) ==
    /\ req' = [req EXCEPT ![p] = [r EXCEPT !.pc = "done"]]
    /\ allOK' = (allOK /\ r.err = "")

\* The request goes on to its next store call.
Goto(p, r) ==
    /\ req' = [req EXCEPT ![p] = r]
    /\ UNCHANGED allOK

\* The field maps a client sends to EditBook / EditNote besides the id.
EditPayloads(keys) == UNION {[S -> {"", "x"}] : S \in SUBSET keys}

\* The fields map after fields["id"] = oid.
FieldsWithId(payload, oid) ==
    [k \in DOMAIN payload \cup {"id"} |->
        IF k = "id" THEN OidVal(oid) ELSE StrVal(payload[k])]

\* UpdateFields without the test for the empty string.
UpdateFieldsUnfiltered(fields) == fields

\* for k, v := range fields { if v != "" { updateFields = append(...) } }
UpdateFields(fields) ==
    [k \in {j \in DOMAIN fields : fields[j] # StrVal("")} |-> fields[k]]

\* getBook(oid, s): the book with this id, decoded; the zero Book if none.
getBook(coll, oid, fail) ==
    DecodeBook(IF fail THEN NoDoc ELSE FindOne(coll, oid))

\* deleteNote(bookID, noteID, s): pull noteID from the notes of book bookID;
\* reports whether the update went through.
deleteNote(coll, bookID, noteID, fail) ==
    LET r == PullNote(coll, bookID, noteID)
    IN  IF fail \/ r.err THEN [ok |-> FALSE, coll |-> coll]
        ELSE [ok |-> TRUE, coll |-> r.coll]

-----------------------------------------------------------------------------
(* Book handlers.                                                          *)

\* GetBook: decode the id, one FindOne, NotFound for the zero Book.
GetBook(p) ==
    \E s \in IdInputs :
      \E fail \in IF ObjectIDFromHex(s).err THEN {FALSE} ELSE BOOLEAN :
        LET o == ObjectIDFromHex(s)
            r == [Idle EXCEPT !.op = "GetBook", !.valid = ~o.err, !.id = o.oid,
                              !.before = FindOne(bookCollection, o.oid)]
            book == DecodeBook(IF fail THEN NoDoc ELSE FindOne(bookCollection, o.oid))
        IN  /\ Begin(p)
            /\ IF o.err THEN Respond(p, [r EXCEPT !.err = "InvalidFormat"])
               ELSE IF book.ID = NilObjectID
               THEN Respond(p, [r EXCEPT !.calls = <<"book.FindOne">>,
                                         !.err = "NotFound"])
               ELSE Respond(p, [r EXCEPT !.calls = <<"book.FindOne">>,
                                         !.data = book])
            /\ UNCHANGED <<bookCollection, noteCollection, nextId>>

\* The bound payload stored as it came, id and notes included.
NewBookKeepsPayload(bound, oid) == bound

\* book.ID = primitive.NewObjectID(); book.Notes = []primitive.ObjectID{}
NewBook(bound, oid) == [bound EXCEPT !.ID = oid, !.Notes = <<>>]

\* AddBook: bind the payload, overwrite ID and Notes, one InsertOne.
AddBook(p) ==
    \E s \in IdInputs, n \in {<<>>, <<1>>}, fail \in BOOLEAN :
        LET bound == [ID |-> BindObjectID(s), Title |-> "t", Notes |-> n]
            book == NewBook(bound, nextId)
            r == [Idle EXCEPT !.op = "AddBook", !.id = book.ID,
                              !.calls = <<"book.InsertOne">>]
        IN  /\ Begin(p)
            /\ nextId <= MaxId
            /\ nextId' = nextId + 1
            /\ IF fail
               THEN /\ Respond(p, [r EXCEPT !.err = "StoreError",
                                            !.errAt = "book.InsertOne"])
                    /\ UNCHANGED bookCollection
               ELSE /\ Respond(p, [r EXCEPT !.data = book.ID])
                    /\ bookCollection' = bookCollection \cup
                           {BookDoc(book.ID, book.Title, book.Notes)}
            /\ UNCHANGED noteCollection

\* DeleteBook with the book deleted along with its notes, in the first step.
DeleteBookNotesAndBook(p) ==
    \E s \in IdInputs :
      \E fail \in IF ObjectIDFromHex(s).err THEN {FALSE} ELSE BOOLEAN :
        LET o == ObjectIDFromHex(s)
            r == [Idle EXCEPT !.op = "DeleteBook", !.valid = ~o.err, !.id = o.oid,
                              !.before = FindOne(bookCollection, o.oid)]
        IN  /\ Begin(p)
            /\ IF o.err
               THEN /\ Respond(p, [r EXCEPT !.err = "InvalidFormat"])
                    /\ UNCHANGED <<bookCollection, noteCollection>>
               ELSE IF fail
               THEN /\ Respond(p, [r EXCEPT !.calls = <<"note.DeleteMany">>,
                                            !.err = "StoreError",
                                            !.errAt = "note.DeleteMany"])
                    /\ UNCHANGED <<bookCollection, noteCollection>>
               ELSE /\ Goto(p, [r EXCEPT !.calls = <<"note.DeleteMany">>,
                                         !.pc = "DeleteBook_book"])
                    /\ noteCollection' = DeleteMany(noteCollection, o.oid)
                    /\ bookCollection' = DeleteOne(bookCollection, o.oid).coll
            /\ UNCHANGED nextId

\* DeleteBook, first store call: DeleteMany of the notes of the book.
DeleteBookNotes(p) ==
    \E s \in IdInputs :
      \E fail \in IF ObjectIDFromHex(s).err THEN {FALSE} ELSE BOOLEAN :
        LET o == ObjectIDFromHex(s)
            r == [Idle EXCEPT !.op = "DeleteBook", !.valid = ~o.err, !.id = o.oid,
                              !.before = FindOne(bookCollection, o.oid)]
        IN  /\ Begin(p)
            /\ IF o.err
               THEN /\ Respond(p, [r EXCEPT !.err = "InvalidFormat"])
                    /\ UNCHANGED noteCollection
               ELSE IF fail
               THEN /\ Respond(p, [r EXCEPT !.calls = <<"note.DeleteMany">>,
                                            !.err = "StoreError",
                                            !.errAt = "note.DeleteMany"])
                    /\ UNCHANGED noteCollection
               ELSE /\ Goto(p, [r EXCEPT !.calls = <<"note.DeleteMany">>,
                                         !.pc = "DeleteBook_book"])
                    /\ noteCollection' = DeleteMany(noteCollection, o.oid)
            /\ UNCHANGED <<bookCollection, nextId>>

\* DeleteBook, second store call: DeleteOne of the book.
DeleteBookBook(p) ==
    \E fail \in BOOLEAN :
        LET r == [req[p] EXCEPT !.calls = Append(@, "book.DeleteOne")]
            d == DeleteOne(bookCollection, r.id)
        IN  /\ req[p].pc = "DeleteBook_book"
            /\ IF fail
               THEN /\ Respond(p, [r EXCEPT !.err = "StoreError",
                                            !.errAt = "book.DeleteOne"])
                    /\ UNCHANGED bookCollection
               ELSE /\ Respond(p, [r EXCEPT !.data = d.count])
                    /\ bookCollection' = d.coll
            /\ UNCHANGED <<noteCollection, nextId>>

\* EditBook: decode fields["id"], $set the non-empty fields of the payload
\* with one FindOneAndUpdate; the document before the update is returned.
EditBook(p) ==
    \E s \in IdInputs, payload \in EditPayloads({"title", "notes"}) :
      \E fail \in IF strIdToPrimitive(s).err THEN {FALSE} ELSE BOOLEAN :
        LET o == strIdToPrimitive(s)
            fields == FieldsWithId(payload, o.oid)
            r == [Idle EXCEPT !.op = "EditBook", !.valid = ~o.err, !.id = o.oid,
                              !.fields = payload,
                              !.before = FindOne(bookCollection, o.oid)]
            c == [r EXCEPT !.calls = <<"book.FindOneAndUpdate">>]
            u == SetOne(bookCollection, o.oid, UpdateFields(fields))
        IN  /\ Begin(p)
            /\ IF o.err
               THEN /\ Respond(p, [r EXCEPT !.err = "InvalidFormat"])
                    /\ UNCHANGED bookCollection
               ELSE IF fail
               THEN /\ Respond(p, [c EXCEPT !.err = "StoreError",
                                            !.errAt = "book.FindOneAndUpdate"])
                    /\ UNCHANGED bookCollection
               ELSE IF ~u.matched
               THEN /\ Respond(p, [c EXCEPT !.err = "NotFound"])
                    /\ UNCHANGED bookCollection
               ELSE /\ Respond(p, [c EXCEPT
                           !.data = FindOne(bookCollection, o.oid).doc])
                    /\ bookCollection' = u.coll
            /\ UNCHANGED <<noteCollection, nextId>>

-----------------------------------------------------------------------------
(* Note handlers.                                                          *)

\* ListNoteByBook, first store call: decode the id and load the book.
ListNoteByBook(p) ==
    \E s \in IdInputs :
      \E fail \in IF ObjectIDFromHex(s).err THEN {FALSE} ELSE BOOLEAN :
        LET o == ObjectIDFromHex(s)
            r == [Idle EXCEPT !.op = "ListNoteByBook", !.valid = ~o.err,
                              !.id = o.oid,
                              !.before = FindOne(bookCollection, o.oid)]
            c == [r EXCEPT !.calls = <<"book.FindOne">>]
            book == getBook(bookCollection, o.oid, fail)
        IN  /\ Begin(p)
            /\ IF o.err THEN Respond(p, [r EXCEPT !.err = "InvalidFormat"])
               ELSE IF book.ID = NilObjectID
               THEN Respond(p, [c EXCEPT !.err = "NotFound"])
               ELSE IF book.Notes = <<>>
               THEN Respond(p, [c EXCEPT !.data = <<>>])
               ELSE Goto(p, [c EXCEPT !.noteIDs = book.Notes,
                                      !.pc = "ListNoteByBook_loop"])
            /\ UNCHANGED <<bookCollection, noteCollection, nextId>>

\* ListNoteByBook, one turn of the loop: FindOne of the next note identifier;
\* the zero Note is appended when the note is missing.
ListNoteByBookLoop(p) ==
    \E fail \in BOOLEAN :
        LET noteID == Head(req[p].noteIDs)
            note == DecodeNote(IF fail THEN NoDoc
                               ELSE FindOne(noteCollection, noteID))
            r == [req[p] EXCEPT !.calls = Append(@, "note.FindOne"),
                                !.noteIDs = Tail(@),
                                !.notes = Append(@, note)]
        IN  /\ req[p].pc = "ListNoteByBook_loop"
            /\ IF r.noteIDs = <<>>
               THEN Respond(p, [r EXCEPT !.data = r.notes])
               ELSE Goto(p, r)
            /\ UNCHANGED <<bookCollection, noteCollection, nextId>>

\* GetNote: decode the id, one FindOne, NotFound for the zero Note.
GetNote(p) ==
    \E s \in IdInputs :
      \E fail \in IF ObjectIDFromHex(s).err THEN {FALSE} ELSE BOOLEAN :
        LET o == ObjectIDFromHex(s)
            r == [Idle EXCEPT !.op = "GetNote", !.valid = ~o.err, !.id = o.oid,
                              !.before = FindOne(noteCollection, o.oid)]
            note == DecodeNote(IF fail THEN NoDoc ELSE FindOne(noteCollection, o.oid))
        IN  /\ Begin(p)
            /\ IF o.err THEN Respond(p, [r EXCEPT !.err = "InvalidFormat"])
               ELSE IF note.ID = NilObjectID
               THEN Respond(p, [r EXCEPT !.calls = <<"note.FindOne">>,
                                         !.err = "NotFound"])
               ELSE Respond(p, [r EXCEPT !.calls = <<"note.FindOne">>,
                                         !.data = note])
            /\ UNCHANGED <<bookCollection, noteCollection, nextId>>

\* AddNote, first store call: bind the payload (its error is discarded),
\* mint the note id, $push it onto the notes of the book.
AddNotePush(p) ==
    \E s \in IdInputs, fail \in BOOLEAN :
        LET note == [ID |-> nextId, BookID |-> BindObjectID(s), Content |-> "c"]
            r == [Idle EXCEPT !.op = "AddNote", !.valid = ~ObjectIDFromHex(s).err,
                              !.id = note.ID, !.bookID = note.BookID,
                              !.before = FindOne(bookCollection, note.BookID),
                              !.calls = <<"book.UpdateOne.push">>]
            u == PushNote(bookCollection, note.BookID, note.ID)
        IN  /\ Begin(p)
            /\ nextId <= MaxId
            /\ nextId' = nextId + 1
            /\ IF fail \/ u.err
               THEN /\ Respond(p, [r EXCEPT !.err = "StoreError",
                                            !.errAt = "book.UpdateOne.push"])
                    /\ UNCHANGED bookCollection
               ELSE /\ Goto(p, [r EXCEPT !.pc = "AddNote_insert"])
                    /\ bookCollection' = u.coll
            /\ UNCHANGED noteCollection

\* AddNote, second store call: InsertOne of the note.
AddNoteInsert(p) ==
    \E fail \in BOOLEAN :
        LET r == [req[p] EXCEPT !.calls = Append(@, "note.InsertOne")]
        IN  /\ req[p].pc = "AddNote_insert"
            /\ IF fail
               THEN /\ Goto(p, [r EXCEPT !.pc = "AddNote_compensate"])
                    /\ UNCHANGED noteCollection
               ELSE /\ Respond(p, [r EXCEPT !.data = r.id])
                    /\ noteCollection' = noteCollection \cup
                           {NoteDoc(r.id, r.bookID, "c")}
            /\ UNCHANGED <<bookCollection, nextId>>

\* AddNoteCompensate without the call of deleteNote.
AddNoteSkipsCompensation(p) ==
    /\ req[p].pc = "AddNote_compensate"
    /\ Respond(p, [req[p] EXCEPT !.err = "StoreError",
                                 !.errAt = "note.InsertOne"])
    /\ UNCHANGED <<bookCollection, noteCollection, nextId>>

\* AddNote after a failed insert: deleteNote takes the id out of the book
\* again; the insert error is what the caller gets.
AddNoteCompensate(p) ==
    \E fail \in BOOLEAN :
        LET d == deleteNote(bookCollection, req[p].bookID, req[p].id, fail)
            r == [req[p] EXCEPT !.calls = Append(@, "book.UpdateOne.pull"),
                                !.isDeleted = d.ok,
                                !.err = "StoreError",
                                !.errAt = "note.InsertOne"]
        IN  /\ req[p].pc = "AddNote_compensate"
            /\ Respond(p, r)
            /\ bookCollection' = d.coll
            /\ UNCHANGED <<noteCollection, nextId>>

\* DeleteNote, first store call: bind the payload (its error is discarded)
\* and find the note to learn its bookID (the decode error is discarded).
DeleteNoteFind(p) ==
    \E s \in IdInputs, fail \in BOOLEAN :
        LET tempNote == [ID |-> BindObjectID(s)]
            note == DecodeNote(IF fail THEN NoDoc
                               ELSE FindOne(noteCollection, tempNote.ID))
            r == [Idle EXCEPT !.op = "DeleteNote", !.valid = ~ObjectIDFromHex(s).err,
                              !.added = req[p].added,
                              !.id = tempNote.ID, !.bookID = note.BookID,
                              !.before = FindOne(noteCollection, tempNote.ID),
                              !.calls = <<"note.FindOne">>,
                              !.pc = "DeleteNote_detach"]
        IN  /\ Begin(p)
            /\ Goto(p, r)
            /\ UNCHANGED <<bookCollection, noteCollection, nextId>>

\* DeleteNote, second store call: deleteNote detaches the id from the book.
DeleteNoteDetach(p) ==
    \E fail \in BOOLEAN :
        LET d == deleteNote(bookCollection, req[p].bookID, req[p].id, fail)
            r == [req[p] EXCEPT !.calls = Append(@, "book.UpdateOne.pull"),
                                !.isDeleted = d.ok]
        IN  /\ req[p].pc = "DeleteNote_detach"
            /\ IF ~d.ok
               THEN Respond(p, [r EXCEPT !.err = "DetachFailed",
                                         !.errAt = "book.UpdateOne.pull"])
               ELSE Goto(p, [r EXCEPT !.pc = "DeleteNote_delete"])
            /\ bookCollection' = d.coll
            /\ UNCHANGED <<noteCollection, nextId>>

\* DeleteNote, third store call: DeleteOne of the note document.
DeleteNoteDelete(p) ==
    \E fail \in BOOLEAN :
        LET r == [req[p] EXCEPT !.calls = Append(@, "note.DeleteOne")]
            d == DeleteOne(noteCollection, r.id)
        IN  /\ req[p].pc = "DeleteNote_delete"
            /\ IF fail
               THEN /\ Respond(p, [r EXCEPT !.err = "StoreError",
                                            !.errAt = "note.DeleteOne"])
                    /\ UNCHANGED noteCollection
               ELSE /\ Respond(p, [r EXCEPT !.data = d.count])
                    /\ noteCollection' = d.coll
            /\ UNCHANGED <<bookCollection, nextId>>

\* EditNote: decode fields["id"], $set the non-empty fields of the payload
\* with one UpdateOne; the modified count is returned, also when it is 0.
EditNote(p) ==
    \E s \in IdInputs, payload \in EditPayloads({"content", "bookid"}) :
      \E fail \in IF strIdToPrimitive(s).err THEN {FALSE} ELSE BOOLEAN :
        LET o == strIdToPrimitive(s)
            fields == FieldsWithId(payload, o.oid)
            r == [Idle EXCEPT !.op = "EditNote", !.valid = ~o.err, !.id = o.oid,
                              !.fields = payload,
                              !.before = FindOne(noteCollection, o.oid)]
            c == [r EXCEPT !.calls = <<"note.UpdateOne">>]
            u == SetOne(noteCollection, o.oid, UpdateFields(fields))
        IN  /\ Begin(p)
            /\ IF o.err
               THEN /\ Respond(p, [r EXCEPT !.err = "InvalidFormat"])
                    /\ UNCHANGED noteCollection
               ELSE IF fail
               THEN /\ Respond(p, [c EXCEPT !.err = "StoreError",
                                            !.errAt = "note.UpdateOne"])
                    /\ UNCHANGED noteCollection
               ELSE /\ Respond(p, [c EXCEPT !.data =
                           IF u.coll = noteCollection THEN 0 ELSE 1])
                    /\ noteCollection' = u.coll
            /\ UNCHANGED <<bookCollection, nextId>>

\* The handler returns: the response is out and the slot is free again.
Return(p) ==
    /\ req[p].pc = "done"
    /\ req' = [req EXCEPT ![p] = [Idle EXCEPT !.added =
                   IF req[p].op = "AddNote" /\ req[p].err = ""
                   THEN [found |-> TRUE, id |-> req[p].id, book |-> req[p].before]
                   ELSE NoAdd]]
    /\ UNCHANGED <<bookCollection, noteCollection, nextId, allOK>>

-----------------------------------------------------------------------------
(* Specifications.                                                         *)

Init ==
    /\ bookCollection = {}
    /\ noteCollection = {}
    /\ nextId = 1
    /\ req = [p \in Procs |-> Idle]
    /\ allOK = TRUE

Step(p) ==
    \/ Begin(p) /\ GetBook(p)
    \/ Begin(p) /\ AddBook(p)
    \/ Begin(p) /\ DeleteBookNotes(p)
    \/ Begin(p) /\ EditBook(p)
    \/ Begin(p) /\ ListNoteByBook(p)
    \/ Begin(p) /\ GetNote(p)
    \/ Begin(p) /\ AddNotePush(p)
    \/ Begin(p) /\ DeleteNoteFind(p)
    \/ Begin(p) /\ EditNote(p)
    \/ Running(p) /\ DeleteBookBook(p)
    \/ Running(p) /\ ListNoteByBookLoop(p)
    \/ Running(p) /\ AddNoteInsert(p)
    \/ Running(p) /\ AddNoteCompensate(p)
    \/ Running(p) /\ DeleteNoteDetach(p)
    \/ Running(p) /\ DeleteNoteDelete(p)
    \/ Return(p)

\* One client: each request runs to its response before the next starts.
Next == Step(1)

Spec == Init /\ [][Next]_vars

\* A store that an earlier run of the service has filled: one book with one
\* note, under ObjectIDs that this run does not generate again.
SeedBook == MaxId + 1

SeedNote == MaxId + 2

ConcInit ==
    /\ bookCollection = {BookDoc(SeedBook, "t", <<SeedNote>>)}
    /\ noteCollection = {NoteDoc(SeedNote, SeedBook, "c")}
    /\ nextId = 1
    /\ req = [p \in Procs |-> Idle]
    /\ allOK = TRUE

\* The handlers that maintain the book-note relationship, and the list that
\* reads it.
ConcStep(p) ==
    \/ Begin(p) /\ AddBook(p)
    \/ Begin(p) /\ DeleteBookNotes(p)
    \/ Begin(p) /\ ListNoteByBook(p)
    \/ Begin(p) /\ AddNotePush(p)
    \/ Begin(p) /\ DeleteNoteFind(p)
    \/ Running(p) /\ DeleteBookBook(p)
    \/ Running(p) /\ ListNoteByBookLoop(p)
    \/ Running(p) /\ AddNoteInsert(p)
    \/ Running(p) /\ AddNoteCompensate(p)
    \/ Running(p) /\ DeleteNoteDetach(p)
    \/ Running(p) /\ DeleteNoteDelete(p)

\* Requests of several clients, one request in each slot, interleaved at the
\* store calls.
ConcNext == \E p \in Procs : ConcStep(p)

ConcSpec == ConcInit /\ [][ConcNext]_vars

-----------------------------------------------------------------------------
(* What the properties read off a state.                                   *)

Done(p, op) == req[p].pc = "done" /\ req[p].op = op

BookNow(id) == FindOne(bookCollection, id)

NoteNow(id) == FindOne(noteCollection, id)

\* The note identifiers in the notes of a book document.
NotesOf(d) == IF d["notes"].t = "arr" THEN d["notes"].v ELSE <<>>

\* Some book lists note identifier n.
Referenced(n) == \E b \in bookCollection : Count(NotesOf(b), n) > 0

-----------------------------------------------------------------------------
(* C1.  After AddNote against an existing book returned success, with no   *)
(* other request in between, the note's identifier is exactly once in the  *)
(* notes of the book and the stored note carries the book's id as bookID.  *)

C1_AddNoteLinksNoteAndBook ==
    \A p \in Procs :
        (Done(p, "AddNote") /\ req[p].err = "" /\ req[p].before.found) =>
            /\ BookNow(req[p].bookID).found
            /\ Count(NotesOf(BookNow(req[p].bookID).doc), req[p].id) = 1
            /\ NoteNow(req[p].id).found
            /\ NoteNow(req[p].id).doc["bookid"] = BookNow(req[p].bookID).doc["id"]

C1_Witness ==
    \E p \in Procs :
        Done(p, "AddNote") /\ req[p].err = "" /\ req[p].before.found

-----------------------------------------------------------------------------
(* C2.  Whenever no request is in progress and every completed request     *)
(* returned success, every identifier in the notes of a book is the id of  *)
(* an existing note whose bookID is the id of that book.                   *)

Quiescent == \A p \in Procs : ~Running(p)

NoDanglingReference ==
    \A b \in bookCollection :
        \A i \in 1..Len(NotesOf(b)) :
            /\ NoteNow(NotesOf(b)[i]).found
            /\ NoteNow(NotesOf(b)[i]).doc["bookid"] = b["id"]

C2_NotesReferenceOwnNotes == (Quiescent /\ allOK) => NoDanglingReference

-----------------------------------------------------------------------------
(* C3.  When the insert of AddNote fails after the push went through, the  *)
(* pull of the note id from the book is attempted exactly once; if it      *)
(* succeeds the book is as it was before the request, without the note id; *)
(* either way the response is the error of the insert.                     *)

InsertFailed(p) ==
    /\ Done(p, "AddNote")
    /\ Len(req[p].calls) >= 2
    /\ ~NoteNow(req[p].id).found

C3_CompensationOnFailedInsert ==
    \A p \in Procs :
        /\ req[p].pc = "AddNote_compensate" =>
               req[p].calls = <<"book.UpdateOne.push", "note.InsertOne">>
        /\ InsertFailed(p) =>
               /\ req[p].calls = <<"book.UpdateOne.push", "note.InsertOne",
                                   "book.UpdateOne.pull">>
               /\ req[p].err = "StoreError"
               /\ req[p].errAt = "note.InsertOne"
               /\ (req[p].isDeleted /\ req[p].before.found) =>
                      /\ BookNow(req[p].bookID) = req[p].before
                      /\ Count(NotesOf(BookNow(req[p].bookID).doc), req[p].id) = 0

C3_Witness ==
    \E p \in Procs :
        InsertFailed(p) /\ req[p].isDeleted /\ req[p].before.found

-----------------------------------------------------------------------------
(* C4.  DeleteNote of an existing note never leaves the note document      *)
(* missing while a book still lists its identifier: the document goes      *)
(* only after the identifier is out of the notes of its book, and a failed *)
(* detach ends the request with an error and the document in place.        *)

C4_DetachBeforeDelete ==
    \A p \in Procs :
        (req[p].op = "DeleteNote" /\ req[p].before.found) =>
            /\ (req[p].pc = "done" /\ req[p].errAt = "book.UpdateOne.pull") =>
                   (req[p].err # "" /\ NoteNow(req[p].id) = req[p].before)
            /\ ~NoteNow(req[p].id).found => ~Referenced(req[p].id)

-----------------------------------------------------------------------------
(* C5.  After DeleteBook of an existing book returned success, no note     *)
(* listed in the notes of the book exists and GetBook of the book finds    *)
(* nothing.                                                                *)

C5_DeleteBookCascades ==
    \A p \in Procs :
        (Done(p, "DeleteBook") /\ req[p].err = "" /\ req[p].before.found) =>
            /\ \A i \in 1..Len(NotesOf(req[p].before.doc)) :
                   ~NoteNow(NotesOf(req[p].before.doc)[i]).found
            /\ DecodeBook(BookNow(req[p].id)).ID = NilObjectID

-----------------------------------------------------------------------------
(* C6.  AddNote with a bookID that matches no book fails and persists      *)
(* nothing: no note is inserted and no book is changed.                    *)

C6_AddNoteNeedsBook ==
    \A p \in Procs :
        (Done(p, "AddNote") /\ ~req[p].before.found) =>
            /\ req[p].err # ""
            /\ req[p].calls = <<"book.UpdateOne.push">>
            /\ ~NoteNow(req[p].id).found

-----------------------------------------------------------------------------
(* C7.  DeleteNote of an identifier that is not in the note store fails at *)
(* the lookup: no pull on a book and no delete is issued, and the response *)
(* is an error.                                                            *)

C7_DeleteNoteUnknownFails ==
    \A p \in Procs :
        (Done(p, "DeleteNote") /\ ~req[p].before.found) =>
            /\ req[p].err # ""
            /\ req[p].calls = <<"note.FindOne">>

-----------------------------------------------------------------------------
(* C8.  A request whose identifier string is malformed ends with           *)
(* InvalidFormat without having issued any store call.                     *)

C8_MalformedIdRejectedFirst ==
    \A p \in Procs :
        (req[p].op # "" /\ ~req[p].valid) =>
            /\ req[p].pc = "done"
            /\ req[p].err = "InvalidFormat"
            /\ req[p].calls = <<>>

-----------------------------------------------------------------------------
(* C9.  After EditBook / EditNote of an existing entity returned success,  *)
(* every payload field with a non-empty value has that value, and every    *)
(* field with an empty value or absent from the payload is as it was.      *)

EditedNow(p) ==
    IF req[p].op = "EditBook" THEN BookNow(req[p].id) ELSE NoteNow(req[p].id)

EditSucceeded(p) ==
    /\ req[p].pc = "done"
    /\ req[p].op \in {"EditBook", "EditNote"}
    /\ req[p].err = ""
    /\ req[p].before.found

C9_PartialUpdateSkipsEmptyFields ==
    \A p \in Procs :
        EditSucceeded(p) =>
            LET old == req[p].before.doc
                new == EditedNow(p).doc
                set == {k \in DOMAIN req[p].fields : req[p].fields[k] # ""}
            IN  /\ EditedNow(p).found
                /\ DOMAIN new = DOMAIN old \cup set
                /\ \A k \in set : new[k] = StrVal(req[p].fields[k])
                /\ \A k \in DOMAIN old \ set : new[k] = old[k]

C9_Witness ==
    \E p \in Procs :
        /\ EditSucceeded(p)
        /\ \E k \in DOMAIN req[p].fields : req[p].fields[k] = ""
        /\ \E k \in DOMAIN req[p].fields :
               /\ req[p].fields[k] # ""
               /\ req[p].before.doc[k] # StrVal(req[p].fields[k])

-----------------------------------------------------------------------------
(* C10.  No step changes the bookID or the id of a note that exists: a     *)
(* note in the store after the step that has the id of a note in the store *)
(* before it has the same bookID.                                          *)

NoteIdentityKept ==
    \A n \in noteCollection :
        \A m \in noteCollection' :
            m["id"] = n["id"] => m["bookid"] = n["bookid"]

C10_BookIDNeverReassigned == [][NoteIdentityKept]_vars

-----------------------------------------------------------------------------
(* C11.  EditBook and EditNote with a well-formed id that matches no       *)
(* document respond with an error, and the document still does not exist.  *)

C11_EditUnknownIdFails ==
    \A p \in Procs :
        /\ req[p].pc = "done"
        /\ req[p].op \in {"EditBook", "EditNote"}
        /\ req[p].valid
        /\ ~req[p].before.found
        => /\ req[p].err # ""
           /\ ~EditedNow(p).found

-----------------------------------------------------------------------------
(* C12.  A step of EditNote issues at most the one update of the note      *)
(* collection (exactly one when the id is well formed), leaves the book    *)
(* collection as it was and leaves every note other than the addressed one *)
(* as it was; a step of EditBook does the same with the collections        *)
(* exchanged.                                                              *)

Others(coll, id) == coll \ Matching(coll, "id", OidVal(id))

EditStep(p, op) == req[p].pc = "idle" /\ req'[p].op = op

OneUpdate(p, call) ==
    req'[p].calls = IF req'[p].valid THEN <<call>> ELSE <<>>

EditFrame ==
    \A p \in Procs :
        /\ EditStep(p, "EditNote") =>
               /\ OneUpdate(p, "note.UpdateOne")
               /\ bookCollection' = bookCollection
               /\ Others(noteCollection', req'[p].id) =
                      Others(noteCollection, req'[p].id)
        /\ EditStep(p, "EditBook") =>
               /\ OneUpdate(p, "book.FindOneAndUpdate")
               /\ noteCollection' = noteCollection
               /\ Others(bookCollection', req'[p].id) =
                      Others(bookCollection, req'[p].id)

C12_EditTouchesOneDocument == [][EditFrame]_vars

\* An edit changed its document while the store holds another document.
C12_Witness ==
    \E p \in Procs :
        /\ EditSucceeded(p)
        /\ EditedNow(p).doc # req[p].before.doc
        /\ Cardinality(bookCollection) + Cardinality(noteCollection) >= 2

-----------------------------------------------------------------------------
(* C13.  When AddNote against an existing book B returned note id N with   *)
(* success and the client's next request, DeleteNote of N, returned        *)
(* success too, the document of B is what it was before the AddNote and no *)
(* note N exists (GetNote of N finds nothing).                             *)

AddedThenDeleted(p) ==
    /\ Done(p, "DeleteNote")
    /\ req[p].err = ""
    /\ req[p].added.found
    /\ req[p].added.id = req[p].id
    /\ req[p].added.book.found

C13_AddThenDeleteRestoresBook ==
    \A p \in Procs :
        AddedThenDeleted(p) =>
            /\ BookNow(DecodeBook(req[p].added.book).ID) = req[p].added.book
            /\ ~NoteNow(req[p].id).found

-----------------------------------------------------------------------------
(* C14.  A step of AddBook that returns success returns the identifier     *)
(* that was generated for the request, which is the id of no book already  *)
(* stored, and adds to the book collection exactly one document, with that *)
(* id and empty notes, whatever id and notes the payload carried.          *)

AddBookStep(p) ==
    req[p].pc = "idle" /\ req'[p].op = "AddBook" /\ req'[p].err = ""

AddBookStoresFresh ==
    \A p \in Procs :
        AddBookStep(p) =>
            /\ req'[p].data = nextId
            /\ ~FindOne(bookCollection, req'[p].data).found
            /\ bookCollection' =
                   bookCollection \cup {BookDoc(req'[p].data, "t", <<>>)}

C14_AddBookStoresFreshEmptyBook == [][AddBookStoresFresh]_vars

\* AddBook returned success in a store that already held a book.
C14_Witness ==
    \E p \in Procs :
        /\ Done(p, "AddBook")
        /\ req[p].err = ""
        /\ BookNow(req[p].data).found
        /\ Cardinality(bookCollection) >= 2

-----------------------------------------------------------------------------
(* C15.  Requests interleave.  When AddNote completes, by the insert that  *)
(* succeeds or by the compensation that succeeds after the failed insert,  *)
(* the identifier it minted is in the notes of no book without its note    *)
(* document.  (That a reader sees such an identifier before, between the   *)
(* append and the insert, is the state of C15_Witness.)                    *)

DanglingIn(books, notes, n) ==
    /\ \E b \in books : Count(NotesOf(b), n) > 0
    /\ ~FindOne(notes, n).found

AddNoteCompletes(p) ==
    \/ /\ req[p].pc = "AddNote_insert"
       /\ req'[p].pc = "done"
       /\ req'[p].err = ""
    \/ /\ req[p].pc = "AddNote_compensate"
       /\ req'[p].isDeleted

WindowClosed ==
    \A p \in Procs :
        AddNoteCompletes(p) =>
            ~DanglingIn(bookCollection', noteCollection', req[p].id)

C15_WindowClosedWhenAddNoteCompletes == [][WindowClosed]_vars

\* ListNoteByBook has returned the list of a book with the placeholder at the
\* place of the identifier that an AddNote, now between its append and its
\* insert, has pushed.
C15_Witness ==
    \E p, q \in Procs :
        /\ req[p].op = "AddNote"
        /\ req[p].pc = "AddNote_insert"
        /\ ~NoteNow(req[p].id).found
        /\ Done(q, "ListNoteByBook")
        /\ req[q].err = ""
        /\ req[q].id = req[p].bookID
        /\ \E i \in 1..Len(req[q].data) :
               /\ NotesOf(req[q].before.doc)[i] = req[p].id
               /\ req[q].data[i].ID = NilObjectID

-----------------------------------------------------------------------------
(* C16.  Requests interleave.  No update of the notes of a book is lost:   *)
(* an identifier that an AddNote has appended to a stored book, the        *)
(* request being between its append and its insert or having returned      *)
(* success, is in the notes of the book exactly once unless a DeleteNote   *)
(* has detached it from that book, and an identifier that a DeleteNote has *)
(* detached from a stored book is not in the notes of the book.            *)

\* AddNote in slot p has appended its identifier to book document b.
Appended(p, b) ==
    /\ req[p].op = "AddNote"
    /\ \/ req[p].pc = "AddNote_insert"
       \/ req[p].pc = "done" /\ req[p].err = ""
    /\ req[p].before.found
    /\ b["id"] = OidVal(req[p].bookID)

\* DeleteNote in slot q has detached identifier n from book document b.
Detached(q, n, b) ==
    /\ req[q].op = "DeleteNote"
    /\ req[q].isDeleted
    /\ req[q].id = n
    /\ b["id"] = OidVal(req[q].bookID)

BothAppended(p, q, b) ==
    /\ p # q
    /\ Appended(p, b) /\ req[p].pc = "AddNote_insert"
    /\ Appended(q, b) /\ req[q].pc = "AddNote_insert"

-----------------------------------------------------------------------------
(* C17.  The first step of DeleteBook, the bulk delete of the notes, never *)
(* changes the book collection, and when the bulk delete fails it changes  *)
(* no document and the request ends with the error.  The second step, the  *)
(* delete of the book, is taken only after the bulk delete as the only     *)
(* call so far; it changes no note, and when it fails the book collection  *)
(* is as it was, no further call is issued and the request ends with the   *)
(* error.                                                                  *)

DeleteBookOrder ==
    \A p \in Procs :
        /\ req[p].pc = "idle" /\ req'[p].op = "DeleteBook" =>
               /\ bookCollection' = bookCollection
               /\ req'[p].errAt = "note.DeleteMany" =>
                      /\ noteCollection' = noteCollection
                      /\ req'[p].pc = "done"
                      /\ req'[p].err # ""
               /\ req'[p].pc = "DeleteBook_book" =>
                      Matching(noteCollection', "bookid", OidVal(req'[p].id)) = {}
        /\ req[p].pc = "DeleteBook_book" /\ req'[p] # req[p] =>
               /\ req[p].calls = <<"note.DeleteMany">>
               /\ req'[p].calls = <<"note.DeleteMany", "book.DeleteOne">>
               /\ req'[p].pc = "done"
               /\ noteCollection' = noteCollection
               /\ bookCollection' # bookCollection => req'[p].err = ""
               /\ req'[p].err # "" => req'[p].errAt = "book.DeleteOne"

C17_DeleteBookNotesFirstNoCompensation == [][DeleteBookOrder]_vars

\* The delete of the book failed after the notes of the book were deleted:
\* the book is still stored and lists notes that are gone.
C17_Witness ==
    \E p \in Procs :
        /\ Done(p, "DeleteBook")
        /\ req[p].errAt = "book.DeleteOne"
        /\ req[p].before.found
        /\ BookNow(req[p].id) = req[p].before
        /\ NotesOf(req[p].before.doc) # <<>>
        /\ \A i \in 1..Len(NotesOf(req[p].before.doc)) :
               ~NoteNow(NotesOf(req[p].before.doc)[i]).found

-----------------------------------------------------------------------------
(* C18.  ListNoteByBook with a well-formed id responds with an error when  *)
(* no book has the id.  For a stored book it does not fail once the loop   *)
(* over the notes has begun, and its list has one entry for each           *)
(* identifier in the notes of the book, in their order: the decoded note   *)
(* document of that identifier when the note is stored, the zero Note when *)
(* it is not.                                                              *)

ListedNotes(p) == NotesOf(req[p].before.doc)

C18_ListFollowsNotes ==
    \A p \in Procs :
        Done(p, "ListNoteByBook") /\ req[p].valid =>
            /\ ~req[p].before.found => req[p].err # ""
            /\ req[p].before.found /\ Len(req[p].calls) > 1 => req[p].err = ""
            /\ req[p].before.found /\ req[p].err = "" =>
                   /\ Len(req[p].data) = Len(ListedNotes(p))
                   /\ \A i \in 1..Len(ListedNotes(p)) :
                          req[p].data[i] = DecodeNote(NoteNow(ListedNotes(p)[i]))

-----------------------------------------------------------------------------
(* C19.  Requests interleave.  When an AddNote that found book B stored    *)
(* and a DeleteBook of B have both completed, and DeleteBook returned      *)
(* success, no note document has bookID B.                                 *)

C19_NoOrphanAfterDeleteBook ==
    \A p, q \in Procs :
        /\ Done(p, "AddNote")
        /\ req[p].before.found
        /\ Done(q, "DeleteBook")
        /\ req[q].err = ""
        /\ req[q].id = req[p].bookID
        => Matching(noteCollection, "bookid", OidVal(req[q].id)) = {}

====
